---- MODULE Spec2Model ----
(***************************************************************************)
(* Model of lawful-typeclasses' Class (src/src/classes.ts, the version     *)
(* with the id counter, lines 66-133): construction of definitions and     *)
(* the recursive Class.validate.                                           *)
(*                                                                         *)
(* ./utils (MaybeError) and ./validators (all, obey) are imported by       *)
(* classes.ts but are not part of the available sources; they are modelled *)
(* from the written specification (sections 3, 4.1-4.3).                   *)
(***************************************************************************)
EXTENDS Naturals, Sequences, FiniteSets

VARIABLES defs, idCounter, last, stack, cand, returned, va, vb, vc, vout

vars == <<defs, idCounter, last, stack, cand, returned, va, vb, vc, vout>>

graphVars == <<defs, idCounter>>
runVars == <<stack, cand, returned>>
algVars == <<va, vb, vc, vout>>

----------------------------------------------------------------------------
(* Bounds of the model *)

\* number of definitions ever constructed
MaxDefs == 3

\* longest message list of a ValidationResult drawn as an input of conjoin
MaxMsgs == 2

----------------------------------------------------------------------------
(* Candidate types and laws *)

\* candidate types (JS classes handed to validate), identified by their name
Candidates == {"Num", "Broken"}

instanceName(c) == c

\* atomic laws (predicates wrapped by obey)
LawNames == {"refl", "comm", "assoc"}

\* the candidate types on which all trials of a law's predicate pass
Passes == [l \in LawNames |-> IF l = "comm" THEN {"Num", "Broken"} ELSE {"Num"}]

----------------------------------------------------------------------------
(* ValidationResult (MaybeError) *)

Success == [isError |-> FALSE, msgs |-> <<>>]

fail(msg) == [isError |-> TRUE, msgs |-> <<msg>>]

isError(r) == r.isError

\* Faulty variant of conjoin: of two Failures only the first one's messages
\* are kept.
conjoin_KeepFirst(a, b) ==
  CASE ~a.isError /\ ~b.isError -> Success
    [] ~a.isError /\ b.isError -> [isError |-> TRUE, msgs |-> b.msgs]
    [] a.isError -> [isError |-> TRUE, msgs |-> a.msgs]

conjoin(a, b) ==
  CASE ~a.isError /\ ~b.isError -> Success
    [] ~a.isError /\ b.isError -> [isError |-> TRUE, msgs |-> b.msgs]
    [] a.isError /\ ~b.isError -> [isError |-> TRUE, msgs |-> a.msgs]
    [] a.isError /\ b.isError -> [isError |-> TRUE, msgs |-> a.msgs \o b.msgs]

RECURSIVE foldConjoin(_)
foldConjoin(rs) ==
  IF rs = <<>> THEN Success
  ELSE conjoin(foldConjoin(SubSeq(rs, 1, Len(rs) - 1)), rs[Len(rs)])

----------------------------------------------------------------------------
(* Validators *)

obey(l) == [kind |-> "obey", law |-> l, children |-> <<>>]

all(cs) == [kind |-> "all", law |-> "", children |-> cs]

lawMessage(l) == <<"law", l>>

RECURSIVE check(_, _)
check(v, c) ==
  IF v.kind = "obey"
  THEN IF c \in Passes[v.law] THEN Success ELSE fail(lawMessage(v.law))
  ELSE foldConjoin([i \in 1..Len(v.children) |-> check(v.children[i], c)])

----------------------------------------------------------------------------
(* Class *)

\* an optional field of ClassOptions: <<>> when omitted, <<x>> when given
Omitted == <<>>
Given(x) == <<x>>

\* the name and laws given to a constructor call: both omitted, a name the
\* constructor replaces, a name alone, another name with laws
NamedLaws == all(<<obey("refl"), obey("comm"), obey("assoc")>>)

NameAndLaws ==
  {[name |-> Omitted, laws |-> Omitted],
   [name |-> Given(""), laws |-> Omitted],
   [name |-> Given("Ord"), laws |-> Omitted],
   [name |-> Given("Eq"), laws |-> Given(NamedLaws)]}

\* the sequences without repetition over the set S
RECURSIVE Arrangements(_)
Arrangements(S) ==
  {<<>>} \cup UNION {{<<x>> \o t : t \in Arrangements(S \ {x})} : x \in S}

ExtendsChoices(n) == {Omitted} \cup {Given(ps) : ps \in Arrangements(1..n)}

\* the ClassOptions a constructor call can be given when n definitions exist
ClassOptions(n) ==
  {[name |-> nl.name, extends |-> e, laws |-> nl.laws] :
     nl \in NameAndLaws, e \in ExtendsChoices(n)}

\* Faulty variant of newClass: omitted laws default to a law, not to all().
newClass_DefaultLaw(options, counter) ==
  [parents |-> IF options.extends = Omitted THEN <<>> ELSE options.extends[1],
   laws |-> IF options.laws = Omitted THEN obey("refl") ELSE options.laws[1],
   name |-> IF options.name = Omitted \/ options.name = Given("")
            THEN "Unnamed" ELSE options.name[1],
   id |-> counter]

newClass(options, counter) ==
  [parents |-> IF options.extends = Omitted THEN <<>> ELSE options.extends[1],
   laws |-> IF options.laws = Omitted THEN all(<<>>) ELSE options.laws[1],
   name |-> IF options.name = Omitted \/ options.name = Given("")
            THEN "Unnamed" ELSE options.name[1],
   id |-> counter]

contextMessage(c, name) ==
  <<"Class", instanceName(c), "fails the prerequisites to be a", name>>

Enter(r) == [op |-> "validate", d |-> r]
Check(r) == [op |-> "check", d |-> r]
Exit(r) == [op |-> "return", d |-> r]

RECURSIVE Flatten(_)
Flatten(ss) ==
  IF ss = <<>> THEN <<>> ELSE Head(ss) \o Flatten(Tail(ss))

\* Faulty variant of validateReturn: the own laws are checked and conjoined
\* even when a prerequisite has failed.
validateReturn_AlwaysCheck(d, c, results) ==
  LET both == conjoin(foldConjoin(results), check(d.laws, c))
  IN [res |-> IF isError(both)
              THEN conjoin(both, fail(contextMessage(c, d.name))) ELSE both,
      checked |-> TRUE]

\* Faulty variant of validateReturn: the prerequisites' results are dropped.
validateReturn_Masked(d, c, results) ==
  [res |-> check(d.laws, c), checked |-> TRUE]

\* Faulty variant of validateReturn: a prerequisite failure is passed on
\* without the contextual message.
validateReturn_NoContext(d, c, results) ==
  LET parentResults == foldConjoin(results)
  IN IF isError(parentResults)
     THEN [res |-> parentResults, checked |-> FALSE]
     ELSE [res |-> check(d.laws, c), checked |-> TRUE]

\* what validate returns once its prerequisites have returned `results`
validateReturn(d, c, results) ==
  LET parentResults == foldConjoin(results)
  IN IF isError(parentResults)
     THEN [res |-> conjoin(parentResults, fail(contextMessage(c, d.name))),
           checked |-> FALSE]
     ELSE [res |-> check(d.laws, c), checked |-> TRUE]

\* the runs up to and including the first one that failed
UpToFirstFailure(runs) ==
  LET failing == {i \in 1..Len(runs) : isError(runs[i].res)}
  IN IF failing = {} THEN runs
     ELSE SubSeq(runs, 1, CHOOSE i \in failing : \A j \in failing : i <= j)

\* the runs without those of a definition an earlier run already validated
RECURSIVE OnlyUnvisited(_)
OnlyUnvisited(runs) ==
  IF runs = <<>> THEN <<>>
  ELSE LET n == Len(runs)
           before == OnlyUnvisited(SubSeq(runs, 1, n - 1))
       IN IF \E j \in 1..(n - 1) : \E k \in 1..Len(runs[j].log) :
               runs[j].log[k] = runs[n].log[1]
          THEN before ELSE Append(before, runs[n])

\* Faulty variant of validateBody: the prerequisites after the first failing
\* one are not validated.
validateBody_StopAtFirstFailure(d, r, c, runs) ==
  LET done == UpToFirstFailure(runs)
      ret == validateReturn(d, c, [i \in 1..Len(done) |-> done[i].res])
  IN [res |-> ret.res,
      log |-> <<Enter(r)>> \o Flatten([i \in 1..Len(done) |-> done[i].log])
              \o (IF ret.checked THEN <<Check(r)>> ELSE <<>>) \o <<Exit(r)>>]

\* Faulty variant of validateBody: a prerequisite that an earlier prerequisite
\* already led to is not validated again.
validateBody_SkipVisited(d, r, c, runs) ==
  LET done == OnlyUnvisited(runs)
      ret == validateReturn(d, c, [i \in 1..Len(done) |-> done[i].res])
  IN [res |-> ret.res,
      log |-> <<Enter(r)>> \o Flatten([i \in 1..Len(done) |-> done[i].log])
              \o (IF ret.checked THEN <<Check(r)>> ELSE <<>>) \o <<Exit(r)>>]

\* one call of validate on the definition d (at reference r), given the
\* runs of validate on each of its prerequisites
validateBody(d, r, c, runs) ==
  LET ret == validateReturn(d, c, [i \in 1..Len(runs) |-> runs[i].res])
  IN [res |-> ret.res,
      log |-> <<Enter(r)>> \o Flatten([i \in 1..Len(runs) |-> runs[i].log])
              \o (IF ret.checked THEN <<Check(r)>> ELSE <<>>) \o <<Exit(r)>>]

RECURSIVE validate(_, _, _)
validate(ds, r, c) ==
  validateBody(ds[r], r, c,
               [i \in 1..Len(ds[r].parents) |-> validate(ds, ds[r].parents[i], c)])

----------------------------------------------------------------------------
(* Operations: construction, and validate as one call *)

NoCall == <<>>

\* Faulty variant of Construct: the id is read but the counter stays.
Construct_NoIncrement(options) ==
  /\ Len(defs) < MaxDefs
  /\ stack = <<>>
  /\ defs' = Append(defs, newClass(options, idCounter))
  /\ UNCHANGED <<idCounter, last, runVars, algVars>>

Construct(options) ==
  /\ Len(defs) < MaxDefs
  /\ stack = <<>>
  /\ defs' = Append(defs, newClass(options, idCounter))
  /\ idCounter' = idCounter + 1
  /\ UNCHANGED <<last, runVars, algVars>>

\* Faulty variant of Validate: the definition remembers that it was
\* validated by dropping its laws.
Validate_Memo(r, c) ==
  /\ stack = <<>>
  /\ LET run == validate(defs, r, c)
     IN last' = <<[d |-> r, c |-> c, res |-> run.res, log |-> run.log]>>
  /\ defs' = [defs EXCEPT ![r].laws = all(<<>>)]
  /\ UNCHANGED <<idCounter, runVars, algVars>>

Validate(r, c) ==
  /\ stack = <<>>
  /\ LET run == validate(defs, r, c)
     IN last' = <<[d |-> r, c |-> c, res |-> run.res, log |-> run.log]>>
  /\ UNCHANGED <<defs, idCounter, runVars, algVars>>

DoConstruct == \E options \in ClassOptions(Len(defs)) : Construct(options)

DoValidate == \E r \in 1..Len(defs), c \in Candidates : Validate(r, c)

Init ==
  /\ defs = <<>>
  /\ idCounter = 0
  /\ last = NoCall
  /\ stack = <<>>
  /\ cand = "Num"
  /\ returned = <<>>
  /\ va = Success
  /\ vb = Success
  /\ vc = Success
  /\ vout = Success

Next == DoConstruct \/ DoValidate

Spec == Init /\ [][Next]_vars

----------------------------------------------------------------------------
(* validate step by step: the call stack of the recursion.  A frame holds  *)
(* the definition being validated and the results its prerequisites have   *)
(* returned so far (the prefix of the array built by parents.map);         *)
(* `returned` holds what the outermost call gave back to its caller.       *)

Frame(r) == [d |-> r, acc |-> <<>>]

Top == stack[Len(stack)]

\* Faulty variant of returnTo: the returning frame is never left.
returnTo_Stuck(stk, res) == stk

\* the stack after its top frame returns res to its caller
returnTo(stk, res) ==
  IF Len(stk) = 1 THEN <<>>
  ELSE LET caller == stk[Len(stk) - 1]
       IN SubSeq(stk, 1, Len(stk) - 2)
            \o <<[caller EXCEPT !.acc = Append(@, res)]>>

Begin(r, c) ==
  /\ stack = <<>>
  /\ stack' = <<Frame(r)>>
  /\ cand' = c
  /\ returned' = <<>>
  /\ UNCHANGED <<defs, idCounter, last, algVars>>

CallParent ==
  /\ stack # <<>>
  /\ Len(Top.acc) < Len(defs[Top.d].parents)
  /\ stack' = Append(stack, Frame(defs[Top.d].parents[Len(Top.acc) + 1]))
  /\ UNCHANGED <<defs, idCounter, last, cand, returned, algVars>>

Return ==
  /\ stack # <<>>
  /\ Len(Top.acc) = Len(defs[Top.d].parents)
  /\ LET ret == validateReturn(defs[Top.d], cand, Top.acc)
     IN /\ stack' = returnTo(stack, ret.res)
        /\ returned' = IF Len(stack) = 1
                       THEN <<[d |-> Top.d, c |-> cand, res |-> ret.res]>>
                       ELSE returned
  /\ UNCHANGED <<defs, idCounter, last, cand, algVars>>

DoBegin == \E r \in 1..Len(defs), c \in Candidates : Begin(r, c)

Step == CallParent \/ Return

NextSteps == DoConstruct \/ DoBegin \/ CallParent \/ Return

\* validate is an ordinary synchronous call: once begun it keeps running
SpecSteps == Init /\ [][NextSteps]_vars /\ WF_vars(Step)

----------------------------------------------------------------------------
(* conjoin and foldConjoin applied to drawn ValidationResults *)

Messages == {"m1", "m2"}

RECURSIVE MessageLists(_)
MessageLists(n) ==
  IF n = 0 THEN {<<>>}
  ELSE MessageLists(n - 1)
       \cup {Append(ms, m) : ms \in MessageLists(n - 1), m \in Messages}

\* Success, and the Failures of 1..MaxMsgs messages
ResultInputs ==
  {Success} \cup {[isError |-> TRUE, msgs |-> ms] : ms \in MessageLists(MaxMsgs) \ {<<>>}}

InitConjoin ==
  /\ defs = <<>>
  /\ idCounter = 0
  /\ last = NoCall
  /\ stack = <<>>
  /\ cand = "Num"
  /\ returned = <<>>
  /\ va \in ResultInputs
  /\ vb \in ResultInputs
  /\ vc \in ResultInputs
  /\ vout = Success

ConjoinLeft ==
  /\ vout' = conjoin(conjoin(va, vb), vc)
  /\ UNCHANGED <<defs, idCounter, last, runVars, va, vb, vc>>

ConjoinRight ==
  /\ vout' = conjoin(va, conjoin(vb, vc))
  /\ UNCHANGED <<defs, idCounter, last, runVars, va, vb, vc>>

FoldConjoin ==
  /\ vout' = foldConjoin(<<va, vb>>)
  /\ UNCHANGED <<defs, idCounter, last, runVars, va, vb, vc>>

NextConjoin == ConjoinLeft \/ ConjoinRight \/ FoldConjoin

SpecConjoin == InitConjoin /\ [][NextConjoin]_vars

----------------------------------------------------------------------------
(* Vocabulary of the properties *)

Range(s) == {s[i] : i \in DOMAIN s}

Count(s, x) == Cardinality({i \in DOMAIN s : s[i] = x})

\* s occurs in t as a block of consecutive elements
Infix(s, t) ==
  \E k \in 0..(Len(t) - Len(s)) : SubSeq(t, k + 1, k + Len(s)) = s

RECURSIVE SumSeq(_)
SumSeq(ns) == IF ns = <<>> THEN 0 ELSE Head(ns) + SumSeq(Tail(ns))

RECURSIVE SumOver(_, _)
SumOver(S, f) ==
  IF S = {} THEN 0
  ELSE LET x == CHOOSE y \in S : TRUE IN f[x] + SumOver(S \ {x}, f)

ParentSet(ds, r) == Range(ds[r].parents)

\* the prerequisites of r, direct or through a chain
RECURSIVE Ancestors(_, _)
Ancestors(ds, r) ==
  ParentSet(ds, r) \cup UNION {Ancestors(ds, p) : p \in ParentSet(ds, r)}

\* the number of prerequisite paths leading from definition r to definition a
RECURSIVE NumPaths(_, _, _)
NumPaths(ds, r, a) ==
  IF r = a THEN 1
  ELSE SumSeq([i \in 1..Len(ds[r].parents) |-> NumPaths(ds, ds[r].parents[i], a)])

OwnLawsFail(ds, r, c) == isError(check(ds[r].laws, c))

\* some prerequisite of r, direct or not, has laws of its own that fail on c
PrereqFails(ds, r, c) == \E a \in Ancestors(ds, r) : OwnLawsFail(ds, a, c)

\* the definitions whose own laws are the origin of a failure of r on c
Origins(ds, r, c) ==
  {x \in {r} \cup Ancestors(ds, r) : OwnLawsFail(ds, x, c) /\ ~PrereqFails(ds, x, c)}

IsContextMessage(m) == Len(m) = 4 /\ m[1] = "Class"

WellFormedResult(res) ==
  /\ DOMAIN res = {"isError", "msgs"}
  /\ res.isError \in BOOLEAN
  /\ res.isError <=> res.msgs # <<>>

Called == last # NoCall

L == last[1]

----------------------------------------------------------------------------
(* C1 *)

\* C1, as stated: every validate(c) on a definition D invokes D's own
\* laws.check(c) exactly once, whether or not its prerequisites fail, and the
\* messages of that check are part of the returned result.
C1_AlwaysChecksOwnLaws ==
  Called =>
    /\ Count(L.log, Check(L.d)) = 1
    /\ Range(check(defs[L.d].laws, L.c).msgs) \subseteq Range(L.res.msgs)

\* C1, amended: validate(c) on D invokes D's own laws.check(c) only when no
\* prerequisite fails: then exactly once, after every prerequisite has
\* returned and right before D returns, and its result is returned as it is.
\* When a prerequisite fails, laws.check is not invoked on D and D's result is
\* a Failure that ends with D's contextual message.
C1_ChecksOwnLawsIffPrereqsPass ==
  Called =>
    IF PrereqFails(defs, L.d, L.c)
    THEN /\ Count(L.log, Check(L.d)) = 0
         /\ L.res.isError
         /\ L.res.msgs[Len(L.res.msgs)] = contextMessage(L.c, defs[L.d].name)
    ELSE /\ Count(L.log, Check(L.d)) = 1
         /\ L.log[Len(L.log) - 1] = Check(L.d)
         /\ \A p \in ParentSet(defs, L.d) :
              \E i \in 1..(Len(L.log) - 2) : L.log[i] = Exit(p)
         /\ L.res = check(defs[L.d].laws, L.c)

\* a call in which a prerequisite fails and D's own laws would fail too
C1_Witness ==
  /\ Called
  /\ PrereqFails(defs, L.d, L.c)
  /\ OwnLawsFail(defs, L.d, L.c)
  /\ Count(L.log, Check(L.d)) = 0

----------------------------------------------------------------------------
(* C2 *)

\* C2: if validate(c) of a prerequisite of D, direct or reached through a
\* chain, returns Failure, then validate(c) on D returns Failure, even when
\* D's own laws succeed, and D's result contains the messages of that
\* prerequisite's result (as one block, in their order).
C2_PrerequisiteFailureNotMasked ==
  Called =>
    \A a \in Ancestors(defs, L.d) :
      LET ra == validate(defs, a, L.c).res
      IN isError(ra) => /\ isError(L.res)
                        /\ Infix(ra.msgs, L.res.msgs)

\* D's own laws succeed, and a prerequisite reached only through a chain fails
C2_Witness ==
  /\ Called
  /\ ~OwnLawsFail(defs, L.d, L.c)
  /\ \E a \in Ancestors(defs, L.d) \ ParentSet(defs, L.d) :
       /\ OwnLawsFail(defs, a, L.c)
       /\ Infix(validate(defs, a, L.c).res.msgs, L.res.msgs)
  /\ isError(L.res)

----------------------------------------------------------------------------
(* C3 *)

ParentRuns(ds, r, c) ==
  [i \in 1..Len(ds[r].parents) |-> validate(ds, ds[r].parents[i], c)]

\* C3: validate(c) validates every prerequisite, in declared order, also
\* after one of them has failed; when prerequisites fail, the result holds
\* the messages of all failing prerequisites, concatenated in declared order,
\* followed by the contextual message.
C3_AllPrerequisitesInOrder ==
  Called =>
    LET runs == ParentRuns(defs, L.d, L.c)
        calls == Flatten([i \in 1..Len(runs) |-> runs[i].log])
    IN /\ Len(L.log) > 1 + Len(calls)
       /\ SubSeq(L.log, 1, 1 + Len(calls)) = <<Enter(L.d)>> \o calls
       /\ (\E i \in 1..Len(runs) : isError(runs[i].res)) =>
            L.res.msgs = Flatten([i \in 1..Len(runs) |-> runs[i].res.msgs])
                           \o <<contextMessage(L.c, defs[L.d].name)>>

\* two prerequisites fail with different messages, the first declared one
\* being the later constructed one
C3_Witness ==
  /\ Called
  /\ Len(defs[L.d].parents) = 2
  /\ defs[L.d].parents[1] > defs[L.d].parents[2]
  /\ LET runs == ParentRuns(defs, L.d, L.c)
     IN /\ isError(runs[1].res)
        /\ isError(runs[2].res)
        /\ runs[1].res.msgs # runs[2].res.msgs
        /\ L.res.msgs = runs[1].res.msgs \o runs[2].res.msgs
                          \o <<contextMessage(L.c, defs[L.d].name)>>

----------------------------------------------------------------------------
(* C4 *)

\* C4, as stated: whenever validate(c) on D returns Failure, from a
\* prerequisite or from D's own laws, the messages include the contextual
\* message naming c and D.
C4_FailureAlwaysHasContext ==
  (Called /\ isError(L.res)) =>
    contextMessage(L.c, defs[L.d].name) \in Range(L.res.msgs)

\* C4, amended: when validate(c) on D returns Failure because a prerequisite
\* failed, the messages end with the contextual message naming c and D, and
\* hold the contextual message of every definition on the way whose
\* prerequisites fail; when only D's own laws fail, the result is that of
\* laws.check and holds no contextual message.
C4_ContextOnPrerequisiteFailureOnly ==
  (Called /\ isError(L.res)) =>
    IF PrereqFails(defs, L.d, L.c)
    THEN /\ L.res.msgs[Len(L.res.msgs)] = contextMessage(L.c, defs[L.d].name)
         /\ \A x \in Ancestors(defs, L.d) :
              PrereqFails(defs, x, L.c) =>
                contextMessage(L.c, defs[x].name) \in Range(L.res.msgs)
    ELSE /\ L.res.msgs = check(defs[L.d].laws, L.c).msgs
         /\ \A i \in DOMAIN L.res.msgs : ~IsContextMessage(L.res.msgs[i])

\* a chain D -> B -> A where A's own laws fail: B and D, of different names,
\* each add their contextual message, A adds none
C4_Witness ==
  /\ Called
  /\ \E b \in ParentSet(defs, L.d) : \E a \in ParentSet(defs, b) :
       /\ OwnLawsFail(defs, a, L.c)
       /\ defs[a].parents = <<>>
       /\ defs[b].name # defs[L.d].name
       /\ contextMessage(L.c, defs[b].name) \in Range(L.res.msgs)
       /\ contextMessage(L.c, defs[L.d].name) \in Range(L.res.msgs)
       /\ contextMessage(L.c, defs[a].name) \notin Range(L.res.msgs)

----------------------------------------------------------------------------
(* C5 *)

\* C5: on the (acyclic) prerequisite graphs that construction builds, every
\* validate(c) that is begun returns, and what it returns is a
\* ValidationResult value, Success or a Failure carrying its messages: the
\* value the recursive definition of validate gives.
C5_ValidateReturnsAResult ==
  /\ (stack # <<>>)
       ~> (/\ stack = <<>>
           /\ Len(returned) = 1
           /\ WellFormedResult(returned[1].res)
           /\ returned[1].res
                = validate(defs, returned[1].d, returned[1].c).res)
  /\ [][(stack # <<>> /\ stack' = <<>>) =>
          (/\ Len(returned') = 1
           /\ returned'[1].d = stack[1].d
           /\ returned'[1].c = cand)]_vars

\* a call that went three frames deep has returned a Failure
C5_Witness ==
  /\ stack = <<>>
  /\ Len(returned) = 1
  /\ isError(returned[1].res)
  /\ \E i \in DOMAIN returned[1].res.msgs : \E j \in DOMAIN returned[1].res.msgs :
       /\ i # j
       /\ IsContextMessage(returned[1].res.msgs[i])
       /\ IsContextMessage(returned[1].res.msgs[j])

----------------------------------------------------------------------------
(* C6 *)

\* C6: a validate call, succeeding or failing, leaves every definition's
\* name, parents, laws and id and the id counter unchanged; existing
\* definitions never change, and the definitions and the counter change only
\* together, when a definition is constructed.
C6_DefinitionsImmutable ==
  [][/\ DoValidate => (defs' = defs /\ idCounter' = idCounter)
     /\ Len(defs') >= Len(defs)
     /\ \A i \in 1..Len(defs) : defs'[i] = defs[i]
     /\ (defs' = defs) <=> (idCounter' = idCounter)]_vars

\* a failing validate has returned on a definition that still has its laws
C6_Witness ==
  /\ Called
  /\ isError(L.res)
  /\ defs[L.d].laws = NamedLaws
  /\ Len(defs) = idCounter

----------------------------------------------------------------------------
(* C7 *)

\* C7: conjoin is associative with Success as its identity; conjoining two
\* Failures gives the Failure of the first's messages followed by the
\* second's; folding no result gives Success, and folding a list conjoins it
\* from the left.
C7_ConjoinMonoid ==
  /\ conjoin(conjoin(va, vb), vc) = conjoin(va, conjoin(vb, vc))
  /\ conjoin(Success, va) = va
  /\ conjoin(va, Success) = va
  /\ (isError(va) /\ isError(vb)) =>
       conjoin(va, vb) = [isError |-> TRUE, msgs |-> va.msgs \o vb.msgs]
  /\ foldConjoin(<<>>) = Success
  /\ foldConjoin(<<va>>) = va
  /\ foldConjoin(<<va, vb, vc>>) = conjoin(va, conjoin(vb, vc))

\* three different Failures were conjoined into one holding all messages
C7_Witness ==
  /\ isError(va) /\ isError(vb) /\ isError(vc)
  /\ va # vb /\ vb # vc
  /\ vout = [isError |-> TRUE, msgs |-> va.msgs \o vb.msgs \o vc.msgs]

----------------------------------------------------------------------------
(* C8 *)

\* C8: whatever options the next constructor call is given (and so for every
\* definition constructed), a definition constructed with its laws omitted
\* has the validator all() with no children, and with its prerequisites
\* omitted has no prerequisite; a definition with omitted laws returns Success
\* on every candidate type on which no prerequisite fails, so one with both
\* omitted always returns Success.
C8_OmittedLawsAlwaysSucceed ==
  /\ Len(defs) < MaxDefs =>
     \A options \in ClassOptions(Len(defs)) : \A c \in Candidates :
       LET ds == Append(defs, newClass(options, idCounter))
           r == Len(ds)
       IN /\ options.laws = Omitted => ds[r].laws = all(<<>>)
          /\ options.extends = Omitted => ds[r].parents = <<>>
          /\ (options.laws = Omitted /\ ~PrereqFails(ds, r, c)) =>
               validate(ds, r, c).res = Success
          /\ (options.laws = Omitted /\ options.extends = Omitted) =>
               validate(ds, r, c).res = Success
  /\ (Called /\ defs[L.d].laws = all(<<>>) /\ ~PrereqFails(defs, L.d, L.c)) =>
       L.res = Success

\* a definition without laws of its own, with prerequisites, returned Success
\* on a candidate type that another definition rejects
C8_Witness ==
  /\ Called
  /\ defs[L.d].laws = all(<<>>)
  /\ defs[L.d].parents # <<>>
  /\ L.res = Success
  /\ \E x \in 1..Len(defs) : OwnLawsFail(defs, x, L.c)

----------------------------------------------------------------------------
(* C9 *)

\* C9: the k-th constructed definition (from 0) has id k, so ids are distinct
\* also among definitions of the same name; the id counter equals the number
\* of definitions constructed, never decreases, and grows by exactly 1 with
\* each construction.
C9_IdsCountConstructions ==
  /\ [](/\ idCounter = Len(defs)
        /\ \A k \in 1..Len(defs) : defs[k].id = k - 1
        /\ \A j \in 1..Len(defs) : \A k \in 1..Len(defs) :
             j # k => defs[j].id # defs[k].id)
  /\ [][/\ idCounter' >= idCounter
        /\ Len(defs') # Len(defs) =>
             (Len(defs') = Len(defs) + 1 /\ idCounter' = idCounter + 1)]_vars

\* two definitions of the same name were constructed around a validate call
C9_Witness ==
  /\ Called
  /\ Len(defs) = 3
  /\ L.d = 2
  /\ defs[1].name = defs[3].name
  /\ defs[1].id # defs[3].id

----------------------------------------------------------------------------
(* C10 *)

\* C10: validate keeps no visited set: in one call on D, validate is invoked
\* on each definition once for every prerequisite path from D to it, and each
\* law message appears in D's result once for every path to a definition
\* whose own laws produced it (a definition whose prerequisites all pass).
C10_ValidatedOncePerPath ==
  Called =>
    /\ \A a \in 1..Len(defs) :
         Count(L.log, Enter(a)) = NumPaths(defs, L.d, a)
    /\ \A l \in LawNames :
         Count(L.res.msgs, lawMessage(l))
           = SumOver(Origins(defs, L.d, L.c),
                     [x \in 1..Len(defs) |->
                        NumPaths(defs, L.d, x)
                          * Count(check(defs[x].laws, L.c).msgs, lawMessage(l))])

\* two declared prerequisites of D lead to the same failing definition A:
\* A was validated twice and its failure message is in D's result twice
C10_Witness ==
  /\ Called
  /\ Len(defs[L.d].parents) = 2
  /\ \E a \in 1..Len(defs) :
       /\ a # L.d
       /\ NumPaths(defs, L.d, a) = 2
       /\ OwnLawsFail(defs, a, L.c)
       /\ Count(L.log, Enter(a)) = 2
       /\ Count(L.res.msgs, lawMessage("refl")) = 2

====
